---- MODULE Spec2Model ----
(***************************************************************************)
(* Model of speech-to-text-dropbox.py: one pass of process_dropbox over    *)
(* the drop directory, the single-file processor, the audiobook            *)
(* (collection) processor and the archival moves, over a file system that  *)
(* maps paths to nodes.  A path is the sequence of its components; names   *)
(* are strings, and the program's string functions (lower, endswith,       *)
(* splitext, strftime, sorted, the f-strings) are computed on characters.  *)
(***************************************************************************)
EXTENDS Integers, Sequences, FiniteSets, TLC

VARIABLES fs, clock, pc, run, items, idx, item_path, timestamp,
          audiobook_output, dir_listing, audio_files, i, processed_files,
          log, envN, faults, model, audio, output_file, split, dest_path

vars == <<fs, clock, pc, run, items, idx, item_path, timestamp,
          audiobook_output, dir_listing, audio_files, i, processed_files,
          log, envN, faults, model, audio, output_file, split, dest_path>>

(* ---------------------------- bounds ----------------------------------- *)
\* runs of the program in one behaviour
MaxRuns == 2
\* disturbances in one behaviour: failures of the engine or of the file
\* system (import, load, listing, transcribe, open, write, close or move
\* raising) and entries the operator drops into or takes out of the drop
\* directory meanwhile
MaxDisturb == 1
\* last value of the one-second clock
MaxClock == 1

(* ------------------------- string functions ---------------------------- *)
Char(s, k) == SubSeq(s, k, k)

\* the characters used in names, in code point order
Ascii == " -./0123456789ABCDEFGHIJKLMNOPQRSTUVWXYZ_abcdefghijklmnopqrstuvwxyz"

Chars == {Char(Ascii, k) : k \in 1..Len(Ascii)}

\* the rank of each character in code point order
OrdTable == [c \in Chars |-> CHOOSE k \in 1..Len(Ascii) : Char(Ascii, k) = c]

Ord(c) == OrdTable[c]

UpperChars == "ABCDEFGHIJKLMNOPQRSTUVWXYZ"

LowerChars == "abcdefghijklmnopqrstuvwxyz"

\* str.lower() of each character
LowerTable ==
    [c \in Chars |->
        IF \E k \in 1..Len(UpperChars) : Char(UpperChars, k) = c
        THEN Char(LowerChars,
                  CHOOSE k \in 1..Len(UpperChars) : Char(UpperChars, k) = c)
        ELSE c]

LowerChar(c) == LowerTable[c]

\* str.lower of the characters of s from position k on
RECURSIVE LowerFrom(_, _)
LowerFrom(s, k) == IF k > Len(s) THEN ""
                   ELSE LowerChar(Char(s, k)) \o LowerFrom(s, k + 1)

Lower(s) == LowerFrom(s, 1)

EndsWith(s, suf) ==
    /\ Len(s) >= Len(suf)
    /\ SubSeq(s, Len(s) - Len(suf) + 1, Len(s)) = suf

\* position of the last occurrence of character c in s, 0 when there is none
LastIndex(s, c) ==
    LET P == {k \in 1..Len(s) : Char(s, k) = c}
    IN  IF P = {} THEN 0 ELSE CHOOSE k \in P : \A m \in P : m <= k

\* Python's str comparison: lexicographic on code points
RECURSIVE StrLessFrom(_, _, _)
StrLessFrom(a, b, k) ==
    IF k > Len(b) THEN FALSE
    ELSE IF k > Len(a) THEN TRUE
    ELSE IF Char(a, k) = Char(b, k)
         THEN StrLessFrom(a, b, k + 1)
         ELSE Ord(Char(a, k)) < Ord(Char(b, k))

StrLess(a, b) == StrLessFrom(a, b, 1)

\* os.path.join, os.path.basename and os.path.dirname on component sequences
Join(d, n) == Append(d, n)

Basename(p) == p[Len(p)]

Dirname(p) == SubSeq(p, 1, Len(p) - 1)

\* os.path.splitext of a name: the extension starts at the last dot, unless
\* only dots precede it
Splitext(n) ==
    LET d == LastIndex(n, ".")
        lead == \A k \in 1..(d - 1) : Char(n, k) = "."
    IN  IF d = 0 \/ lead THEN <<n, "">>
        ELSE <<SubSeq(n, 1, d - 1), SubSeq(n, d, Len(n))>>

\* a listing used in the order the directory gives it
Unsorted(s) == s

\* sorted(): insertion of each element of the listing in ascending order
RECURSIVE InsertSorted(_, _)
InsertSorted(x, s) ==
    IF s = <<>> THEN <<x>>
    ELSE IF StrLess(s[1], x) THEN <<s[1]>> \o InsertSorted(x, Tail(s))
    ELSE <<x>> \o s

RECURSIVE Sorted(_)
Sorted(s) == IF s = <<>> THEN <<>> ELSE InsertSorted(s[1], Sorted(Tail(s)))

\* datetime.now().strftime("%Y%m%d_%H%M%S") for second t of the model's day
Today == "20260101"

Digit(d) == Char("0123456789", d + 1)

TwoDigits(n) == Digit((n \div 10) % 10) \o Digit(n % 10)

Strftime(t) ==
    Today \o "_" \o TwoDigits(t \div 3600) \o TwoDigits((t \div 60) % 60)
          \o TwoDigits(t % 60)

\* all orderings of a finite set, as sequences (os.listdir returns any of them)
RECURSIVE Perms(_)
Perms(S) ==
    IF S = {} THEN {<<>>}
    ELSE UNION {{<<x>> \o p : p \in Perms(S \ {x})} : x \in S}

(* ---------------------------- file system ------------------------------ *)
FileNode(d) == [kind |-> "file", data |-> d]

DirNode == [kind |-> "dir", data |-> <<>>]

Exists(f, p) == p \in DOMAIN f

IsDir(f, p) == p \in DOMAIN f /\ f[p].kind = "dir"

ListDir(f, d) ==
    {Basename(p) : p \in {q \in DOMAIN f : Len(q) = Len(d) + 1 /\ Dirname(q) = d}}

\* p is src or lies below it
Within(p, src) == Len(p) >= Len(src) /\ SubSeq(p, 1, Len(src)) = src

\* a listing that names every entry twice
ListdirTwice(f, d) == {l \o l : l \in Perms(ListDir(f, d))}

\* os.listdir: the names in the directory, in arbitrary order
OsListdir(f, d) == Perms(ListDir(f, d))

Restrict(f, S) == [p \in S |-> f[p]]

\* os.rename of src (a file, or a directory with all below it) to dst,
\* replacing whatever file dst names
Rename(f, src, dst) ==
    LET moving == {p \in DOMAIN f : Within(p, src)}
        New(p) == dst \o SubSeq(p, Len(src) + 1, Len(p))
        moved == [n \in {New(p) : p \in moving} |->
                     f[CHOOSE p \in moving : New(p) = n]]
    IN  moved @@ Restrict(f, DOMAIN f \ moving)

\* a move that copies: the source stays where it was
ShutilCopy(f, src, dst) ==
    IF ~Exists(f, src) \/ Exists(f, dst)
    THEN [ok |-> FALSE, fs |-> f, dst |-> dst]
    ELSE [ok |-> TRUE, dst |-> dst,
          fs |-> [p \in {dst \o SubSeq(q, Len(src) + 1, Len(q)) :
                           q \in {x \in DOMAIN f : Within(x, src)}} |->
                     f[src \o SubSeq(p, Len(dst) + 1, Len(p))]] @@ f]

\* shutil.move(src, dst): whether it returned, the file system after it and
\* the path src landed on.  An existing directory dst receives src inside it;
\* a name taken there raises.  A file at the final path is replaced by a
\* file; a directory cannot replace a file.
ShutilMove(f, src, dst) ==
    LET real_dst == IF IsDir(f, dst) THEN Join(dst, Basename(src)) ELSE dst
        raised == [ok |-> FALSE, fs |-> f, dst |-> real_dst]
    IN  IF ~Exists(f, src) THEN raised
        ELSE IF IsDir(f, dst) /\ Exists(f, real_dst) THEN raised
        ELSE IF IsDir(f, src) /\ Exists(f, real_dst) THEN raised
        ELSE IF Within(real_dst, src) THEN raised
        ELSE [ok |-> TRUE, fs |-> Rename(f, src, real_dst), dst |-> real_dst]

\* a chunk cut short by a write that stopped inside it: its first half, which
\* stands for every cut inside the chunk
Cut(s) == SubSeq(s, 1, Len(s) \div 2)

\* what is left of a chunk cut short
Rest(s) == SubSeq(s, Len(s) \div 2 + 1, Len(s))

\* what is on disk of a content whose writing stopped before its end: some of
\* its chunks, and possibly the next one cut short
Partial(chunks) ==
    {SubSeq(chunks, 1, n) : n \in 0..(Len(chunks) - 1)} \cup
    {Append(SubSeq(chunks, 1, n), Cut(chunks[n + 1])) :
        n \in {m \in 0..(Len(chunks) - 1) : Len(chunks[m + 1]) >= 2}}

\* the file systems a shutil.move that raises can leave.  Nothing was done;
\* or os.rename failed and shutil.move fell back to copying.  For a file the
\* copy stopped partway (a copy cut short beside the source) or the source
\* could not be removed afterwards (the file is in both places).  For a
\* directory copytree makes the directory, notes the error of each file it
\* cannot copy and goes on with the next, and raises at the end: each file is
\* then missing, cut short or whole in the copy, not all of them whole, and
\* the source is as it was; or the copy was made and rmtree raised, after
\* which the source has lost some or all of its files and is still there
MoveRaised(f, src, dst) ==
    LET real_dst == IF IsDir(f, dst) THEN Join(dst, Basename(src)) ELSE dst
        New(p) == real_dst \o SubSeq(p, Len(src) + 1, Len(p))
        Old(n) == src \o SubSeq(n, Len(real_dst) + 1, Len(n))
        files == {p \in DOMAIN f : Within(p, src) /\ p # src}
        whole == [n \in {New(p) : p \in files \cup {src}} |-> f[Old(n)]]
        \* what the copy holds of each file: nothing ({}) or one content
        copies == {c \in [files -> {{}} \cup
                                   {{d} : d \in {f[q].data : q \in files} \cup
                                          UNION {Partial(f[q].data) : q \in files}}] :
                     /\ \A q \in files :
                           c[q] \subseteq {f[q].data} \cup Partial(f[q].data)
                     /\ \E q \in files : c[q] # {f[q].data}}
        Copied(c) ==
            [n \in {real_dst} \cup {New(q) : q \in {r \in files : c[r] # {}}} |->
                IF n = real_dst THEN f[src]
                ELSE FileNode(CHOOSE d \in c[Old(n)] : TRUE)]
    IN  IF IsDir(f, real_dst) \/ Within(real_dst, src)
           \/ (IsDir(f, src) /\ Exists(f, real_dst))
        THEN {f}
        ELSE IF ~IsDir(f, src)
        THEN {f, whole @@ f} \cup
             {(real_dst :> FileNode(d)) @@ f : d \in Partial(f[src].data)}
        ELSE {f} \cup
             {Copied(c) @@ f : c \in copies} \cup
             {whole @@ Restrict(f, DOMAIN f \ R) : R \in SUBSET files}

\* open(path, 'w'): creates the file or truncates it
OpenW(f, p) == (p :> FileNode(<<>>)) @@ f

\* file.write(s) appends one chunk
WriteChunk(f, p, s) == [f EXCEPT ![p].data = Append(@, s)]

\* the content of a file after the pieces have been added to it; when the
\* file ends inside a chunk (joined), the first piece goes on with that chunk
Landed(data, pieces, joined) ==
    IF joined /\ pieces # <<>>
    THEN SubSeq(data, 1, Len(data) - 1) \o <<data[Len(data)] \o pieces[1]>>
            \o Tail(pieces)
    ELSE data \o pieces

\* what output_file holds in its buffer reaches the file on disk
FlushBuffer(f, p, buffer, joined) ==
    [f EXCEPT ![p].data = Landed(@, buffer, joined)]

\* leaving the with block closes output_file, which flushes its buffer
CloseFile(f, p, buffer, joined) == FlushBuffer(f, p, buffer, joined)

(* --------------------------- the program ------------------------------- *)
base_dir == <<".">>

dropbox_dir == Join(base_dir, "dropbox")

output_dir == Join(base_dir, "output")

processed_dir == Join(base_dir, "processed")

audio_extensions == {".mp3"}

\* a test that takes every name for an audio file name
AnyName(filename) == TRUE

\* a test of the extension that is sensitive to case
ExactCase(filename) == \E ext \in audio_extensions : EndsWith(filename, ext)

is_audio_file(filename) ==
    \E ext \in audio_extensions : EndsWith(Lower(filename), ext)

get_output_filename(input_path, out_dir) ==
    Join(out_dir, Splitext(Basename(input_path))[1] \o ".txt")

\* the engine's result["text"] for a recording
TranscriptText(data) == "text of " \o data[1]

\* the chapter header written before each part's text
HeaderPrefix == "\n\n--- Chapter/Part: "

HeaderSuffix == " ---\n\n"

ChapterHeader(file_name) == HeaderPrefix \o file_name \o HeaderSuffix


(* ------------------- what the operator may drop ------------------------ *)
Rec1 == <<"r1">>

Rec2 == <<"r2">>

\* a name that looks like the archive's collision name of a.mp3 at second 0
StampedName == "a_" \o Strftime(0) \o ".mp3"

DropFile(name, d) ==
    [name |-> name, nodes |-> (Join(dropbox_dir, name) :> FileNode(d))]

DropDir(name, parts) ==
    [name |-> name,
     nodes |-> (Join(dropbox_dir, name) :> DirNode) @@
               [p \in {Join(Join(dropbox_dir, name), q[1]) : q \in parts} |->
                  FileNode((CHOOSE q \in parts :
                              Join(Join(dropbox_dir, name), q[1]) = p)[2])]]

EntryA == DropFile("a.mp3", Rec1)

EntryA2 == DropFile("a.mp3", Rec2)

EntryUpper == DropFile("a.MP3", Rec2)

EntryJpg == DropFile("n.jpg", Rec1)

EntryStamped == DropFile(StampedName, Rec2)

EntryBook == DropDir("bk", {<<"b.mp3", Rec2>>, <<"a.mp3", Rec1>>})

EntryTrilogy ==
    DropDir("tri", {<<"c.mp3", Rec1>>, <<"a.mp3", Rec1>>, <<"b.mp3", Rec2>>})

EntryEmpty == DropDir("em", {<<"c.txt", Rec1>>})

EntryDirMp3 == DropDir("d.mp3", {<<"a.mp3", Rec1>>, <<"c.txt", Rec2>>})

RECURSIVE Merge(_)
Merge(S) == IF S = {} THEN <<>>
            ELSE LET e == CHOOSE x \in S : TRUE IN e.nodes @@ Merge(S \ {e})

\* the three directories setup_directories creates
EmptyTree ==
    (dropbox_dir :> DirNode) @@ (output_dir :> DirNode) @@ (processed_dir :> DirNode)

\* what an earlier run at second 0 left behind when it transcribed and
\* archived a.mp3
PriorSingle ==
    (Join(output_dir, "a.txt") :> FileNode(<<TranscriptText(Rec1)>>)) @@
    (Join(processed_dir, "a.mp3") :> FileNode(Rec1))

\* what an earlier run at second 0 left behind when it transcribed and
\* archived the audiobook bk
PriorBook ==
    (Join(output_dir, "bk_" \o Strftime(0) \o ".txt") :>
        FileNode(<<ChapterHeader("a.mp3"), TranscriptText(Rec1),
                   ChapterHeader("b.mp3"), TranscriptText(Rec2)>>)) @@
    (Join(processed_dir, "bk") :> DirNode) @@
    (Join(Join(processed_dir, "bk"), "a.mp3") :> FileNode(Rec1)) @@
    (Join(Join(processed_dir, "bk"), "b.mp3") :> FileNode(Rec2))

\* the initial file systems: what is in the drop directory, and what earlier
\* runs left in the output and archive directories
Scenarios ==
    { <<{}, <<>>>>,
      <<{EntryA}, <<>>>>,
      <<{EntryJpg, EntryA}, <<>>>>,
      <<{EntryA, EntryBook}, <<>>>>,
      <<{EntryA, EntryUpper}, <<>>>>,
      <<{EntryA2, EntryStamped}, PriorSingle>>,
      <<{EntryBook}, PriorBook>>,
      <<{EntryTrilogy}, <<>>>>,
      <<{EntryEmpty, EntryDirMp3}, <<>>>> }

\* what the operator may drop while the program runs
Droppable == {EntryA2, EntryBook}

(* ------------------------------ state ---------------------------------- *)
\* an engine instance made for the call instead of the one passed
ReloadedModel(m) == m + 1

\* the model argument process_dropbox passes to process_audio_file and
\* process_directory, whose transcribe they call
PassedModel(m) == m

\* what happened, in which run and with which engine instance
Event(op, path, arg, ok, n) ==
    [run |-> run, op |-> op, path |-> path, arg |-> arg, ok |-> ok, n |-> n,
     model |-> PassedModel(model)]

Ended == {"done", "exit1", "crashed"}

Init ==
    /\ \E sc \in Scenarios : fs = Merge(sc[1]) @@ sc[2] @@ EmptyTree
    /\ clock = 0
    /\ pc = "idle"
    /\ run = 0
    /\ items = <<>>
    /\ idx = 0
    /\ item_path = <<>>
    /\ timestamp = ""
    /\ audiobook_output = <<>>
    /\ dir_listing = <<>>
    /\ audio_files = <<>>
    /\ i = 0
    /\ processed_files = <<>>
    /\ log = <<>>
    /\ envN = 0
    /\ faults = 0
    /\ model = 0
    /\ audio = <<>>
    /\ output_file = <<>>
    /\ split = FALSE
    /\ dest_path = <<>>

NoJob ==
    /\ item_path' = <<>>
    /\ timestamp' = ""
    /\ audiobook_output' = <<>>
    /\ dir_listing' = <<>>
    /\ audio_files' = <<>>
    /\ i' = 0
    /\ processed_files' = <<>>
    /\ audio' = <<>>
    /\ output_file' = <<>>
    /\ split' = FALSE
    /\ dest_path' = <<>>

JobUnchanged ==
    UNCHANGED <<item_path, timestamp, audiobook_output, dir_listing,
                audio_files, i, processed_files, audio, output_file,
                split, dest_path>>

Fault == faults + envN < MaxDisturb /\ faults' = faults + 1

NoFault == UNCHANGED faults


(* ------------------------- process_dropbox ----------------------------- *)
\* import whisper and whisper.load_model succeed.  Loading the engine takes
\* its time: the drop directory is listed in a later step
LoadModel ==
    /\ pc \in Ended \cup {"idle"}
    /\ run < MaxRuns
    /\ run' = run + 1
    /\ items' = <<>>
    /\ idx' = 0
    /\ pc' = "loaded"
    /\ model' = run + 1
    /\ log' = Append(log, [Event("load", <<>>, <<>>, TRUE, 0)
                              EXCEPT !.run = run + 1, !.model = run + 1])
    /\ NoJob /\ NoFault
    /\ UNCHANGED <<fs, clock, envN>>

\* import whisper raises ImportError: the handler calls sys.exit(1)
LoadModelImportError ==
    /\ pc \in Ended \cup {"idle"}
    /\ run < MaxRuns
    /\ Fault
    /\ run' = run + 1
    /\ items' = <<>>
    /\ idx' = 0
    /\ pc' = "exit1"
    /\ model' = 0
    /\ log' = Append(log, [Event("import_error", <<>>, <<>>, FALSE, 0)
                              EXCEPT !.run = run + 1, !.model = 0])
    /\ NoJob
    /\ UNCHANGED <<fs, clock, envN>>

\* whisper.load_model raises something else: no handler, the run dies
LoadModelRaises ==
    /\ pc \in Ended \cup {"idle"}
    /\ run < MaxRuns
    /\ Fault
    /\ run' = run + 1
    /\ items' = <<>>
    /\ idx' = 0
    /\ pc' = "crashed"
    /\ model' = 0
    /\ log' = Append(log, [Event("load_error", <<>>, <<>>, FALSE, 0)
                              EXCEPT !.run = run + 1, !.model = 0])
    /\ NoJob
    /\ UNCHANGED <<fs, clock, envN>>

\* items = os.listdir(dropbox_dir); with an empty listing process_dropbox
\* returns at once and main logs completion
ListDropbox ==
    /\ pc = "loaded"
    /\ \E listing \in OsListdir(fs, dropbox_dir) :
          /\ items' = listing
          /\ idx' = 1
          /\ pc' = IF listing = <<>> THEN "done" ELSE "loop"
          /\ log' = log \o <<Event("enumerate", dropbox_dir, <<>>, TRUE, 0)>>
                        \o (IF listing = <<>>
                            THEN <<Event("complete", <<>>, <<>>, TRUE, 0)>>
                            ELSE <<>>)
    /\ NoJob /\ NoFault
    /\ UNCHANGED <<fs, clock, run, envN, model>>

\* os.listdir(dropbox_dir) raises (the drop directory cannot be read): the
\* try of process_dropbox has no handler for it, the run dies
ListDropboxRaises ==
    /\ pc = "loaded"
    /\ Fault
    /\ log' = log \o <<Event("enumerate", dropbox_dir, <<>>, FALSE, 0)>>
    /\ pc' = "crashed"
    /\ NoJob
    /\ UNCHANGED <<fs, clock, run, items, idx, envN, model>>

\* the for loop is exhausted; process_dropbox returns and main logs completion
LoopDone ==
    /\ pc = "loop"
    /\ idx > Len(items)
    /\ pc' = "done"
    /\ log' = Append(log, Event("complete", <<>>, <<>>, TRUE, 0))
    /\ NoJob /\ NoFault
    /\ UNCHANGED <<fs, clock, run, items, idx, envN, model>>

AtItem == pc = "loop" /\ idx <= Len(items)

\* back to the head of the for loop with the same item
Repeat ==
    /\ pc' = "loop"
    /\ idx' = idx
    /\ NoJob

\* back to the head of the for loop with the next item
Continue ==
    /\ pc' = "loop"
    /\ idx' = idx + 1
    /\ NoJob

\* the process dies of an exception nothing catches
Crash ==
    /\ pc' = "crashed"
    /\ idx' = idx
    /\ NoJob

\* the else branch: neither a directory nor an audio file name
SkipUnsupported ==
    /\ AtItem
    /\ LET item == items[idx]
           path == Join(dropbox_dir, item)
       IN  /\ ~IsDir(fs, path)
           /\ ~is_audio_file(item)
           /\ log' = log \o <<Event("dispatch_unsupported", path, <<>>, TRUE, 0)>>
    /\ Continue /\ NoFault
    /\ UNCHANGED <<fs, clock, run, items, envN, model>>

\* elif is_audio_file(item): process_audio_file is called
DispatchAudioFile ==
    /\ AtItem
    /\ LET item == items[idx]
           path == Join(dropbox_dir, item)
       IN  /\ ~IsDir(fs, path)
           /\ is_audio_file(item)
           /\ log' = log \o <<Event("dispatch_file", path, <<>>, TRUE, 0)>>
           /\ item_path' = path
    /\ pc' = "audio"
    /\ NoFault
    /\ UNCHANGED <<fs, clock, run, items, idx, timestamp, audiobook_output,
                   dir_listing, audio_files, i, processed_files, audio,
                   output_file, split, dest_path, envN, model>>

\* if os.path.isdir(item_path): process_directory is called
DispatchDirectory ==
    /\ AtItem
    /\ LET path == Join(dropbox_dir, items[idx])
       IN  /\ IsDir(fs, path)
           /\ log' = log \o <<Event("dispatch_dir", path, <<>>, TRUE, 0)>>
           /\ item_path' = path
    /\ pc' = "isdir"
    /\ NoFault
    /\ UNCHANGED <<fs, clock, run, items, idx, timestamp, audiobook_output,
                   dir_listing, audio_files, i, processed_files, audio,
                   output_file, split, dest_path, envN, model>>

(* ------------------------ process_audio_file --------------------------- *)
\* a check of the output file that never finds it
NeverProcessed(f, output_path) == FALSE

AlreadyProcessed(f, output_path) == Exists(f, output_path)

\* a check of the source that always finds it
SourceAssumed(f, file_path) == TRUE

\* os.path.exists(file_path) at the head of process_audio_file
SourceExists(f, file_path) == Exists(f, file_path)

\* process_audio_file up to the transcribe call: the source is missing
\* (return False), the output file exists (return True), or neither
ProcessAudioFile ==
    /\ pc = "audio"
    /\ LET output_path == get_output_filename(item_path, output_dir)
       IN  IF ~SourceExists(fs, item_path)
           THEN /\ log' = log \o <<Event("missing", item_path, <<>>, FALSE, 0)>>
                /\ Continue
           ELSE IF AlreadyProcessed(fs, output_path)
           THEN /\ log' = log \o <<Event("skip", item_path, output_path, TRUE, 0)>>
                /\ pc' = "move"
                /\ UNCHANGED idx /\ JobUnchanged
           ELSE /\ log' = log
                /\ pc' = "transcribe"
                /\ UNCHANGED idx /\ JobUnchanged
    /\ NoFault
    /\ UNCHANGED <<fs, clock, run, items, envN, model>>

\* inside model.transcribe: the engine reads the audio file it was given,
\* the single file or the next part of the directory
LoadAudio ==
    /\ pc \in {"transcribe", "part"}
    /\ audio = <<>>
    /\ LET file == IF pc = "transcribe" THEN item_path ELSE audio_files[i + 1]
       IN  /\ Exists(fs, file) /\ ~IsDir(fs, file)
           /\ audio' = fs[file].data
    /\ NoFault
    /\ UNCHANGED <<fs, clock, pc, run, items, idx, item_path, timestamp,
                   audiobook_output, dir_listing, audio_files, i,
                   processed_files, output_file, split, dest_path, log, envN, model>>

\* model.transcribe returns the text of what the engine read, and the text is
\* written to the output file
TranscribeFile ==
    /\ pc = "transcribe"
    /\ audio # <<>>
    /\ LET output_path == get_output_filename(item_path, output_dir)
       IN  /\ ~IsDir(fs, output_path)
           /\ fs' = WriteChunk(OpenW(fs, output_path), output_path,
                               TranscriptText(audio))
           /\ log' = log \o <<Event("transcribe", item_path, <<>>, TRUE, 0),
                              Event("write", item_path, output_path, TRUE, 0)>>
    /\ pc' = "move"
    /\ audio' = <<>>
    /\ NoFault
    /\ UNCHANGED <<clock, run, items, idx, item_path, timestamp,
                   audiobook_output, dir_listing, audio_files, i,
                   processed_files, output_file, split, dest_path, envN, model>>

\* model.transcribe raises (bad audio, or the source is gone when the engine
\* wants to read it): return False
TranscribeFileRaises ==
    /\ pc = "transcribe"
    /\ \/ audio = <<>> /\ ~Exists(fs, item_path) /\ NoFault
       \/ Fault
    /\ log' = log \o <<Event("transcribe", item_path, <<>>, FALSE, 0)>>
    /\ Continue
    /\ UNCHANGED <<fs, clock, run, items, envN, model>>

\* model.transcribe returns but the with statement raises: return False.
\* Either open(output_path, 'w') raised and no file was made, or f.write or
\* the close raised after open had made the file, which is left empty or with
\* the text cut short
WriteFileRaises ==
    /\ pc = "transcribe"
    /\ audio # <<>>
    /\ Fault
    /\ LET output_path == get_output_filename(item_path, output_dir)
       IN  /\ fs' \in {fs} \cup
                      {FlushBuffer(OpenW(fs, output_path), output_path, d, FALSE) :
                         d \in Partial(<<TranscriptText(audio)>>)}
           /\ log' = log \o <<Event("transcribe", item_path, <<>>, TRUE, 0),
                              Event("write", item_path, output_path, FALSE, 0)>>
    /\ Continue
    /\ UNCHANGED <<clock, run, items, envN, model>>

(* ------------------------- move_to_processed --------------------------- *)
\* the destination move_to_processed computes for a file at time t
FileDest(f, file_path, t) ==
    LET filename == Basename(file_path)
        dest == Join(processed_dir, filename)
    IN  IF Exists(f, dest)
        THEN Join(processed_dir,
                  Splitext(filename)[1] \o "_" \o Strftime(t) \o Splitext(filename)[2])
        ELSE dest

\* if success: move_to_processed(item_path, processed_dir), up to the call
\* of shutil.move: a missing source returns silently, otherwise the
\* destination is chosen
MoveToProcessed ==
    /\ pc = "move"
    /\ IF ~Exists(fs, item_path)
       THEN /\ log' = log \o <<Event("move", item_path, <<>>, FALSE, 0)>>
            /\ Continue
       ELSE /\ dest_path' = FileDest(fs, item_path, clock)
            /\ pc' = "shutil_move"
            /\ UNCHANGED <<log, idx, item_path, timestamp, audiobook_output,
                           dir_listing, audio_files, i, processed_files,
                           audio, output_file, split>>
    /\ NoFault
    /\ UNCHANGED <<fs, clock, run, items, envN, model>>

\* shutil.move(file_path, dest_path): when it raises (the source was taken
\* away after the check) nothing catches the exception before
\* process_dropbox's except ImportError, which does not match
ShutilMoveFile ==
    /\ pc = "shutil_move"
    /\ LET r == ShutilMove(fs, item_path, dest_path)
       IN  /\ fs' = r.fs
           /\ log' = log \o <<Event("move", item_path, r.dst, r.ok,
                                    IF Exists(fs, item_path) THEN 1 ELSE 0)>>
           /\ IF r.ok THEN Continue ELSE Crash
    /\ NoFault
    /\ UNCHANGED <<clock, run, items, envN, model>>

\* shutil.move raises on a source that is there (archive not writable, the
\* copy stops partway, or the source cannot be removed after it was copied):
\* the run dies
MoveToProcessedRaises ==
    /\ pc = "shutil_move"
    /\ Exists(fs, item_path)
    /\ Fault
    /\ fs' \in MoveRaised(fs, item_path, dest_path)
    /\ log' = log \o <<Event("move", item_path, dest_path, FALSE, 1)>>
    /\ Crash
    /\ UNCHANGED <<clock, run, items, envN, model>>


(* ------------------------- process_directory --------------------------- *)
\* if not os.path.isdir(dir_path): the directory went away after the loop
\* took it; "Directory not found" and return
DirectoryNotFound ==
    /\ pc = "isdir"
    /\ ~IsDir(fs, item_path)
    /\ log' = log \o <<Event("dir_not_found", item_path, <<>>, FALSE, 0)>>
    /\ Continue /\ NoFault
    /\ UNCHANGED <<fs, clock, run, items, envN, model>>

\* f"{dir_name}_{timestamp}.txt" in the output directory
AudiobookOutput(dir_path, ts) ==
    Join(output_dir, Basename(dir_path) \o "_" \o ts \o ".txt")

\* the directory is there: the timestamp is taken and the aggregate named
DirectoryFound ==
    /\ pc = "isdir"
    /\ IsDir(fs, item_path)
    /\ timestamp' = Strftime(clock)
    /\ audiobook_output' = AudiobookOutput(item_path, Strftime(clock))
    /\ pc' = "listdir"
    /\ NoFault
    /\ UNCHANGED <<fs, clock, run, items, idx, item_path, dir_listing,
                   audio_files, i, processed_files, audio, output_file,
                   split, dest_path, log, envN, model>>

\* os.listdir(dir_path) raises (the directory went away after the check, or
\* cannot be read): the call is outside the try, the run dies
ListdirRaises ==
    /\ pc = "listdir"
    /\ \/ ~IsDir(fs, item_path) /\ NoFault
       \/ Fault
    /\ log' = log \o <<Event("listdir", item_path, <<>>, FALSE, 0)>>
    /\ Crash
    /\ UNCHANGED <<fs, clock, run, items, envN, model>>

\* [os.path.join(dir_path, f) for f in sorted(os.listdir(dir_path))
\*  if is_audio_file(f)]
\* a part list that takes every entry of the listing
AllFilesOf(dir_path, listing) ==
    [k \in 1..Len(listing) |-> Join(dir_path, Sorted(listing)[k])]

AudioFilesOf(dir_path, listing) ==
    LET names == SelectSeq(Sorted(listing), is_audio_file)
    IN  [k \in 1..Len(names) |-> Join(dir_path, names[k])]

\* a count that includes the part that failed
CountedAttempts(done) == Len(done) + 1

\* len(processed_files) in the message the except clause logs
ReportedCount(done) == Len(done)

\* the listing holds no audio file: a warning, and return
ProcessDirectoryEmpty ==
    /\ pc = "listdir"
    /\ IsDir(fs, item_path)
    /\ \E listing \in OsListdir(fs, item_path) :
          AudioFilesOf(item_path, listing) = <<>>
    /\ log' = log \o <<Event("empty", item_path, <<>>, TRUE, 0)>>
    /\ Continue /\ NoFault
    /\ UNCHANGED <<fs, clock, run, items, envN, model>>

\* process_directory from the listing to the first transcribe call: the
\* sorted part list, and the output file opened for writing
ProcessDirectory ==
    /\ pc = "listdir"
    /\ IsDir(fs, item_path)
    /\ ~IsDir(fs, audiobook_output)
    /\ \E listing \in OsListdir(fs, item_path) :
          /\ AudioFilesOf(item_path, listing) # <<>>
          /\ dir_listing' = listing
          /\ audio_files' = AudioFilesOf(item_path, listing)
          /\ log' = log \o
               <<Event("open", item_path, audiobook_output, TRUE,
                       Len(AudioFilesOf(item_path, listing)))>>
    /\ processed_files' = <<>>
    /\ i' = 0
    /\ audio' = <<>>
    /\ output_file' = <<>>
    /\ fs' = OpenW(fs, audiobook_output)
    /\ pc' = "part"
    /\ NoFault
    /\ UNCHANGED <<clock, run, items, idx, item_path, timestamp,
                   audiobook_output, split, dest_path, envN, model>>

\* open(audiobook_output, 'w') raises: the except clause reports 0 parts
ProcessDirectoryOpenRaises ==
    /\ pc = "listdir"
    /\ IsDir(fs, item_path)
    /\ Fault
    /\ \E listing \in OsListdir(fs, item_path) :
          /\ AudioFilesOf(item_path, listing) # <<>>
          /\ log' = log \o
               <<Event("open", item_path, audiobook_output, FALSE,
                       Len(AudioFilesOf(item_path, listing))),
                 Event("report", item_path, audiobook_output, FALSE,
                       ReportedCount(<<>>))>>
    /\ Continue
    /\ UNCHANGED <<fs, clock, run, items, envN, model>>

\* the part counted as processed after its text is written
MarkProcessed(done, audio_file) == Append(done, audio_file)

\* a loop that leaves for the archival move after any part
AfterPartAlwaysMove(k, n) == "dirmove"

\* the loop's position after part number k (from 0) of n has been handled
AfterPart(k, n) == IF k + 1 = n THEN "dirmove" ELSE "part"

\* one iteration of the loop over audio_files: transcribe returns the text of
\* what the engine read, and header and text are written to output_file.  The
\* file object keeps what is written in its buffer and flushes when the
\* buffer is full: before it takes a chunk that does not fit (the earlier
\* chunks go to the disk, the new one stays) or after it has taken one (all
\* go), and on a disk that is filling up a flush writes only the beginning
\* of what it was given and raises nothing.  So after the part the disk has
\* got a prefix of what was pending, which may end inside a chunk, and the
\* file object holds the rest.  After the last part the with block is left
\* and the file closed
TranscribePart ==
    /\ pc = "part"
    /\ audio # <<>>
    /\ LET audio_file == audio_files[i + 1]
           header == ChapterHeader(Basename(audio_file))
           text == TranscriptText(audio)
           pending == output_file \o <<header, text>>
       IN  /\ Exists(fs, audiobook_output)
           /\ IF AfterPart(i, Len(audio_files)) = "part"
              THEN \E n \in 0..Len(pending), short \in BOOLEAN :
                      /\ short => n < Len(pending) /\ Len(pending[n + 1]) >= 2
                      /\ fs' = FlushBuffer(fs, audiobook_output,
                                           IF short
                                           THEN Append(SubSeq(pending, 1, n),
                                                       Cut(pending[n + 1]))
                                           ELSE SubSeq(pending, 1, n),
                                           split)
                      /\ output_file' =
                            IF short
                            THEN <<Rest(pending[n + 1])>>
                                    \o SubSeq(pending, n + 2, Len(pending))
                            ELSE SubSeq(pending, n + 1, Len(pending))
                      /\ split' = IF short THEN TRUE
                                  ELSE IF n = 0 THEN split ELSE FALSE
              ELSE /\ output_file' = <<>>
                   /\ split' = FALSE
                   /\ fs' = CloseFile(fs, audiobook_output, pending, split)
           /\ processed_files' = MarkProcessed(processed_files, audio_file)
           /\ log' = log \o <<Event("transcribe", audio_file, item_path, TRUE, i + 1)>>
    /\ i' = i + 1
    /\ pc' = AfterPart(i, Len(audio_files))
    /\ audio' = <<>>
    /\ NoFault
    /\ UNCHANGED <<clock, run, items, idx, item_path, timestamp,
                   audiobook_output, dir_listing, audio_files, dest_path,
                   envN, model>>

\* model.transcribe raises for a part: the with block is left, which closes
\* the file, and the except clause reports the count
TranscribePartRaises ==
    /\ pc = "part"
    /\ \/ audio = <<>> /\ ~Exists(fs, audio_files[i + 1]) /\ NoFault
       \/ Fault
    /\ fs' = CloseFile(fs, audiobook_output, output_file, split)
    /\ log' = log \o <<Event("transcribe", audio_files[i + 1], item_path, FALSE, i + 1),
                       Event("report", item_path, audiobook_output, FALSE,
                             ReportedCount(processed_files))>>
    /\ Continue
    /\ UNCHANGED <<clock, run, items, envN, model>>

\* model.transcribe returns for a part but output_file.write raises (disk
\* full): the part is not counted, the with block is left and the except
\* clause reports the count.  Of what the buffer held and of the header and
\* the text, the disk gets what the failing write and the close on the way
\* out still bring there: nothing, or any of it short of the whole text
WritePartRaises ==
    /\ pc = "part"
    /\ audio # <<>>
    /\ Fault
    /\ LET audio_file == audio_files[i + 1]
           header == ChapterHeader(Basename(audio_file))
           text == TranscriptText(audio)
       IN  /\ fs' \in {FlushBuffer(fs, audiobook_output, d, split) :
                         d \in Partial(output_file \o <<header, text>>)}
           /\ log' = log \o <<Event("transcribe", audio_file, item_path, TRUE, i + 1),
                              Event("write", audio_file, audiobook_output, FALSE, i + 1),
                              Event("report", item_path, audiobook_output, FALSE,
                                    ReportedCount(processed_files))>>
    /\ Continue
    /\ UNCHANGED <<clock, run, items, envN, model>>

\* the last part is written and counted, but the close that ends the with
\* block raises (disk full): of what the buffer held the disk gets nothing or
\* a part, the except clause reports all parts and the directory is not moved
CloseRaises ==
    /\ pc = "part"
    /\ audio # <<>>
    /\ AfterPart(i, Len(audio_files)) = "dirmove"
    /\ Fault
    /\ LET audio_file == audio_files[i + 1]
           header == ChapterHeader(Basename(audio_file))
           text == TranscriptText(audio)
       IN  /\ fs' \in {FlushBuffer(fs, audiobook_output, d, split) :
                         d \in Partial(output_file \o <<header, text>>)}
           /\ log' = log \o <<Event("transcribe", audio_file, item_path, TRUE, i + 1),
                              Event("close", item_path, audiobook_output, FALSE, i + 1),
                              Event("report", item_path, audiobook_output, FALSE,
                                    ReportedCount(MarkProcessed(processed_files,
                                                                audio_file)))>>
    /\ Continue
    /\ UNCHANGED <<clock, run, items, envN, model>>

\* the destination process_directory computes for the directory
DirDest(f, dir_path, ts) ==
    LET processed_path == Join(processed_dir, Basename(dir_path))
    IN  IF Exists(f, processed_path)
        THEN Join(processed_dir, Basename(dir_path) \o "_" \o ts)
        ELSE processed_path

\* all parts done: shutil.move(dir_path, processed_path), failures caught
MoveDirectory ==
    /\ pc = "dirmove"
    /\ LET processed_path == DirDest(fs, item_path, timestamp)
           r == ShutilMove(fs, item_path, processed_path)
       IN  /\ fs' = r.fs
           /\ log' = log \o
                (IF r.ok THEN <<Event("move", item_path, r.dst, TRUE, 0)>>
                 ELSE <<Event("move", item_path, r.dst, FALSE, 0),
                        Event("report", item_path, audiobook_output, FALSE,
                              ReportedCount(processed_files))>>)
    /\ Continue /\ NoFault
    /\ UNCHANGED <<clock, run, items, envN, model>>

\* shutil.move raises on a directory that is there (archive not writable, the
\* copy stops partway, or the source cannot be removed after it was copied):
\* caught and reported
MoveDirectoryRaises ==
    /\ pc = "dirmove"
    /\ Exists(fs, item_path)
    /\ Fault
    /\ fs' \in MoveRaised(fs, item_path, DirDest(fs, item_path, timestamp))
    /\ log' = log \o <<Event("move", item_path,
                             DirDest(fs, item_path, timestamp), FALSE, 0),
                       Event("report", item_path, audiobook_output, FALSE,
                             ReportedCount(processed_files))>>
    /\ Continue
    /\ UNCHANGED <<clock, run, items, envN, model>>

(* --------------------------- environment ------------------------------- *)
\* the operator drops a new entry into the drop directory: between two runs,
\* while the engine is loaded, or during the loop.  What was dropped before
\* the first run is part of the initial state, and the program looks at the
\* drop directory's listing only in ListDropbox, so a drop during a job is
\* seen as one between two items
DropEntry ==
    /\ pc \in Ended \cup {"loaded", "loop"}
    /\ faults + envN < MaxDisturb
    /\ \E e \in Droppable :
          /\ ~Exists(fs, Join(dropbox_dir, e.name))
          /\ fs' = e.nodes @@ fs
          /\ log' = log \o <<Event("drop", Join(dropbox_dir, e.name), <<>>, TRUE, 0)>>
    /\ envN' = envN + 1
    /\ NoFault /\ JobUnchanged
    /\ UNCHANGED <<clock, pc, run, items, idx, model>>

\* the operator takes an entry out of the drop directory, at any point of a
\* run
RemoveEntry ==
    /\ pc \notin Ended \cup {"idle"}
    /\ faults + envN < MaxDisturb
    /\ \E name \in ListDir(fs, dropbox_dir) :
          /\ fs' = Restrict(fs, {p \in DOMAIN fs :
                                   ~Within(p, Join(dropbox_dir, name))})
          /\ log' = log \o <<Event("remove", Join(dropbox_dir, name), <<>>, TRUE, 0)>>
    /\ envN' = envN + 1
    /\ NoFault /\ JobUnchanged
    /\ UNCHANGED <<clock, pc, run, items, idx, model>>

\* the operator puts a new recording in the place of a file of the drop
\* directory (a rename over it): the old file goes and a new one comes under
\* its name.  It can happen between two items and at any point while a single
\* file is processed; while a directory is processed it is seen as one
\* between two items
ReplaceEntry ==
    /\ pc \in {"loop", "audio", "transcribe", "move", "shutil_move"}
    /\ faults + envN < MaxDisturb
    /\ \E e \in Droppable :
          LET path == Join(dropbox_dir, e.name)
          IN  /\ Exists(fs, path) /\ ~IsDir(fs, path)
              /\ ~IsDir(e.nodes, path)
              /\ fs' = e.nodes @@ fs
              /\ log' = log \o <<Event("remove", path, <<>>, TRUE, 0),
                                 Event("drop", path, <<>>, TRUE, 0)>>
    /\ envN' = envN + 1
    /\ NoFault /\ JobUnchanged
    /\ UNCHANGED <<clock, pc, run, items, idx, model>>

\* the clock reaches the next second.  The clock is read when a directory's
\* job starts (DirectoryFound) and when a file is moved (MoveToProcessed),
\* so a tick inside a job is seen as one before it or after it
Tick ==
    /\ pc \in Ended \cup {"idle", "loop"}
    /\ clock < MaxClock
    /\ clock' = clock + 1
    /\ NoFault /\ JobUnchanged
    /\ UNCHANGED <<fs, pc, run, items, idx, log, envN, model>>

Next ==
    \/ LoadModel
    \/ LoadModelImportError
    \/ LoadModelRaises
    \/ ListDropbox
    \/ ListDropboxRaises
    \/ LoopDone
    \/ SkipUnsupported
    \/ DispatchAudioFile
    \/ DispatchDirectory
    \/ ProcessAudioFile
    \/ LoadAudio
    \/ TranscribeFile
    \/ TranscribeFileRaises
    \/ WriteFileRaises
    \/ MoveToProcessed
    \/ ShutilMoveFile
    \/ MoveToProcessedRaises
    \/ DirectoryNotFound
    \/ DirectoryFound
    \/ ListdirRaises
    \/ ProcessDirectoryEmpty
    \/ ProcessDirectory
    \/ ProcessDirectoryOpenRaises
    \/ TranscribePart
    \/ TranscribePartRaises
    \/ WritePartRaises
    \/ CloseRaises
    \/ MoveDirectory
    \/ MoveDirectoryRaises
    \/ DropEntry
    \/ RemoveEntry
    \/ ReplaceEntry
    \/ Tick

Spec == Init /\ [][Next]_vars

\* the steps of a call of model.transcribe and of the writing that follows
\* it: the engine reads the file, and returns with a text or with an
\* exception
TranscribeReturns ==
    \/ LoadAudio
    \/ TranscribeFile
    \/ TranscribeFileRaises
    \/ WriteFileRaises
    \/ TranscribePart
    \/ TranscribePartRaises
    \/ WritePartRaises
    \/ CloseRaises

\* the other steps of a run: the interpreter goes on to the next statement
ControlStep ==
    \/ ListDropbox
    \/ ListDropboxRaises
    \/ LoopDone
    \/ SkipUnsupported
    \/ DispatchAudioFile
    \/ DispatchDirectory
    \/ ProcessAudioFile
    \/ MoveToProcessed
    \/ ShutilMoveFile
    \/ MoveToProcessedRaises
    \/ DirectoryNotFound
    \/ DirectoryFound
    \/ ListdirRaises
    \/ ProcessDirectoryEmpty
    \/ ProcessDirectory
    \/ ProcessDirectoryOpenRaises
    \/ MoveDirectory
    \/ MoveDirectoryRaises

\* a run that has started goes on as long as it is not inside a call of
\* model.transcribe; whether such a call returns is left open
LiveSpec == Spec /\ WF_vars(ControlStep)


(* ------------------------- reading the history ------------------------- *)
LogIdx == 1..Len(log)

RunEnded == pc \in Ended

InDir(p, d) == Within(p, d) /\ p # d

\* the files and directories below the output and the archive directory
OutputFiles(f) == Restrict(f, {p \in DOMAIN f : InDir(p, output_dir)})

ArchiveFiles(f) == Restrict(f, {p \in DOMAIN f : InDir(p, processed_dir)})

\* the directories dispatched to process_directory in the current run
DirDispatches == {k \in LogIdx : log[k].op = "dispatch_dir" /\ log[k].run = run}

\* the later events of the same run that are about the directory dispatched
\* at position k: its parts' transcriptions and its move
PartsTranscribed(k) ==
    {j \in LogIdx : /\ j > k
                    /\ log[j].run = log[k].run
                    /\ log[j].op = "transcribe"
                    /\ log[j].arg = log[k].path
                    /\ log[j].ok}

\* the opening of the aggregate for the directory dispatched at position k
OpensOf(k) ==
    {j \in LogIdx : /\ j > k
                    /\ log[j].run = log[k].run
                    /\ log[j].op = "open"
                    /\ log[j].path = log[k].path}

\* the number of audio parts process_directory found in that directory: none
\* when it did not come to open an aggregate
PartCount(k) ==
    IF OpensOf(k) = {} THEN 0 ELSE log[CHOOSE j \in OpensOf(k) : TRUE].n

AllPartsTranscribed(k) == Cardinality(PartsTranscribed(k)) = PartCount(k)

\* the writes to the aggregate of that directory, and its close, that raised
WriteFailures(k) ==
    {j \in LogIdx : /\ j > k
                    /\ log[j].run = log[k].run
                    /\ log[j].op \in {"write", "close"}
                    /\ log[j].arg \in {log[o].arg : o \in OpensOf(k)}
                    /\ ~log[j].ok}

MovesOf(k, ok) ==
    {j \in LogIdx : /\ j > k
                    /\ log[j].run = log[k].run
                    /\ log[j].op = "move"
                    /\ log[j].path = log[k].path
                    /\ log[j].ok = ok}

MovedToArchive(k) ==
    \E j \in MovesOf(k, TRUE) :
        InDir(log[j].arg, processed_dir) /\ IsDir(fs, log[j].arg)

RemovedAfter(k) ==
    \E j \in LogIdx : j > k /\ log[j].op = "remove" /\ log[j].path = log[k].path

\* the operator took the directory dispatched at position k, or dropped one
\* of its name, after the dispatch
TouchedAfter(k) ==
    \E j \in LogIdx :
        j > k /\ log[j].op \in {"drop", "remove"} /\ log[j].path = log[k].path

\* the places in the archive at which a move of the directory dispatched at
\* position k was aimed, whether the move returned or raised
ArchivePlaces(k) == {log[j].arg : j \in MovesOf(k, TRUE) \cup MovesOf(k, FALSE)}

\* the directory dispatched at position k is out of the drop directory and a
\* directory stands in the archive where its move was aimed
LeftForArchive(k) ==
    /\ ~Exists(fs, log[k].path)
    /\ \E d \in ArchivePlaces(k) : InDir(d, processed_dir) /\ IsDir(fs, d)

\* the parts of the directory dispatched at position k that were passed to
\* transcribe
PartsTaken(k) ==
    {log[j].path : j \in {t \in LogIdx : /\ t > k
                                          /\ log[t].run = log[k].run
                                          /\ log[t].op = "transcribe"
                                          /\ log[t].arg = log[k].path}}

(* ------------------------------ claims --------------------------------- *)

\* C1 as stated: at the end of a run, a directory dispatched in that run is in
\* the archive if and only if every audio part it held was transcribed
\* without error in that run.
C1_ArchivedIffAllParts ==
    RunEnded =>
        \A k \in DirDispatches : MovedToArchive(k) <=> AllPartsTranscribed(k)

\* C1 amended: at the end of a run, a directory dispatched in that run has
\* been moved to the archive (it is out of the drop directory and stands in
\* the archive) if and only if it held at least one audio part, every part
\* was transcribed without error in that run, every section was written and
\* the aggregate closed without error, and the archival move did not raise.
\* A directory that was not moved is still in the drop directory unless the
\* operator took it, and it still has the parts taken from it unless the move
\* raised: a move that raises can leave a copy, partial or complete, in the
\* archive and can have removed files from the directory, which itself stays
\* in the drop directory.
C1_AllOrNothing ==
    RunEnded =>
        \A k \in DirDispatches :
            LET whole == /\ PartCount(k) > 0
                         /\ AllPartsTranscribed(k)
                         /\ WriteFailures(k) = {}
                         /\ MovesOf(k, FALSE) = {}
            IN  /\ MovedToArchive(k) <=> whole
                /\ ~TouchedAfter(k) => (LeftForArchive(k) <=> whole)
                /\ ~MovedToArchive(k) /\ ~RemovedAfter(k) =>
                      /\ IsDir(fs, log[k].path)
                      /\ MovesOf(k, FALSE) = {} =>
                            /\ \A p \in PartsTaken(k) : Exists(fs, p)
                            /\ ArchivePlaces(k) = {}

\* C1 witness: a run has ended in which a directory of two parts was
\* transcribed in full and moved to the archive.
C1_Witness ==
    /\ RunEnded
    /\ \E k \in DirDispatches :
          PartCount(k) = 2 /\ AllPartsTranscribed(k) /\ MovedToArchive(k)

\* the entries of the current run's listing that reached the dispatch
Dispatched ==
    {log[k].path : k \in {j \in LogIdx :
        /\ log[j].run = run
        /\ log[j].op \in {"dispatch_file", "dispatch_dir", "dispatch_unsupported"}}}

Enumerated == \E k \in LogIdx : log[k].run = run /\ log[k].op = "enumerate"

\* C2 as stated: whatever fails while one entry is processed, the run does not
\* stop before every entry of its listing has been classified and dispatched.
C2_FailureIsolation ==
    RunEnded /\ Enumerated =>
        \A k \in 1..Len(items) : Join(dropbox_dir, items[k]) \in Dispatched


\* the last event of the log after a step that appended one
Logged(op) == Len(log') > Len(log) /\ log'[Len(log')].op = op

\* the step appended an event of this kind
Appended(op) == \E k \in (Len(log) + 1)..Len(log') : log'[k].op = op

\* the operator put another file under the name of the file being processed
\* after the loop took it
ReplacedInJob ==
    \E d \in LogIdx :
        /\ log[d].run = run /\ log[d].op = "dispatch_file" /\ log[d].path = item_path
        /\ \E j \in LogIdx : j > d /\ log[j].op = "drop" /\ log[j].path = item_path

\* C3 as stated: a move into the archive lands on a path that did not exist
\* before it, and every entry of the archive is still there, unchanged, after
\* any step.
C3_NeverOverwrites ==
    [][ /\ \A p \in DOMAIN ArchiveFiles(fs) : p \in DOMAIN fs' /\ fs'[p] = fs[p]
        /\ Logged("move") /\ log'[Len(log')].ok
              => log'[Len(log')].arg \notin DOMAIN fs ]_vars

\* process_audio_file is entered for an audio file that exists and whose
\* output file exists
SkipCase ==
    /\ pc = "audio"
    /\ Exists(fs, item_path)
    /\ Exists(fs, get_output_filename(item_path, output_dir))

\* the file was found already processed and is on its way to the archive
SkippedNow ==
    /\ pc \in {"move", "shutil_move"}
    /\ \E k \in LogIdx :
          log[k].op = "skip" /\ log[k].run = run /\ log[k].path = item_path

\* C4: when an audio file is processed whose output file exists, the step
\* changes no file (the output file and the source are as before), transcribe
\* is not invoked for it in this run, process_audio_file reports success
\* (move_to_processed is entered) and the move is then attempted.
C4_IdempotentSkip ==
    /\ [][ SkipCase /\ pc' # pc =>
             /\ pc' = "move"
             /\ idx' = idx
             /\ item_path' = item_path
             /\ fs' = fs
             /\ Len(log') = Len(log) + 1
             /\ log'[Len(log')].op = "skip"
             /\ log'[Len(log')].path = item_path ]_vars
    /\ [][ SkippedNow /\ pc' # pc =>
             \/ pc = "move" /\ pc' = "shutil_move" /\ item_path' = item_path
             \/ Logged("move") /\ log'[Len(log')].path = item_path ]_vars
    /\ [](SkippedNow =>
             \A k \in LogIdx :
                 ~(log[k].op = "transcribe" /\ log[k].run = run
                     /\ log[k].path = item_path))

\* C4 witness: the source is in the drop directory, its output file was found
\* and shutil.move is about to be called.
C4_Witness ==
    /\ SkippedNow
    /\ pc = "shutil_move"
    /\ Exists(fs, item_path)
    /\ Exists(fs, get_output_filename(item_path, output_dir))


\* nothing has failed and the operator has not touched the drop directory
NoFailures == envN = 0 /\ \A k \in LogIdx : log[k].ok

\* the single audio files the first run dispatched
FirstRunFiles ==
    {log[k].path : k \in {j \in LogIdx :
                            log[j].run = 1 /\ log[j].op = "dispatch_file"}}

EventsOf(r, op, path) ==
    {k \in LogIdx : log[k].run = r /\ log[k].op = op /\ log[k].path = path}

\* C5: with no failure and no change by the operator, a single audio file of
\* the first run is in the archive and gone from the drop directory once that
\* run has ended, its output file exists and was written at most once; the
\* second run does not meet the file, invokes transcribe for nothing, and
\* none of its steps changes the output or the archive directory.
C5_TwoRuns ==
    /\ [](RunEnded /\ NoFailures =>
             \A f \in FirstRunFiles :
                 /\ ~Exists(fs, f)
                 /\ Exists(fs, get_output_filename(f, output_dir))
                 /\ \E k \in EventsOf(1, "move", f) :
                       InDir(log[k].arg, processed_dir) /\ Exists(fs, log[k].arg)
                 /\ Cardinality({k \in LogIdx : log[k].op = "write"
                                    /\ log[k].path = f}) <= 1
                 /\ \A k \in LogIdx : log[k].run >= 2 => log[k].path # f)
    /\ [](NoFailures =>
             \A k \in LogIdx : log[k].run >= 2 => log[k].op # "transcribe")
    /\ [][ run >= 2 /\ NoFailures =>
             /\ OutputFiles(fs') = OutputFiles(fs)
             /\ ArchiveFiles(fs') = ArchiveFiles(fs) ]_vars

\* C5 witness: the second run has ended without any failure after the first
\* run transcribed a single audio file.
C5_Witness ==
    /\ run = 2 /\ pc = "done" /\ NoFailures
    /\ \E f \in FirstRunFiles :
          \E k \in EventsOf(1, "transcribe", f) : log[k].ok


\* the aggregate file holds, in order, the header and the text of the first n
\* of the parts, and nothing else
SectionsWritten(f, out, parts, n) ==
    /\ Exists(f, out)
    /\ Len(f[out].data) = 2 * n
    /\ \A j \in 1..n :
          /\ f[out].data[2 * j - 1] = ChapterHeader(Basename(parts[j]))
          /\ Exists(f, parts[j]) =>
                f[out].data[2 * j] = TranscriptText(f[parts[j]].data)

FailedParts ==
    {k \in LogIdx : log[k].op = "transcribe" /\ ~log[k].ok /\ log[k].arg # <<>>}

\* what has been written to the aggregate: the file on disk followed by what
\* the open file object still holds
WrittenSoFar == CloseFile(fs, audiobook_output, output_file, split)

\* C6: while the parts are transcribed, what has been written to the aggregate
\* is exactly the sections of the parts done so far; when transcribe fails
\* for part k the step changes no other file (the directory keeps its parts),
\* the aggregate then holds on disk the sections of parts 1..k-1 and nothing
\* else, the count reported is k-1, and no later part of that directory is
\* passed to transcribe in that run.
C6_PartialFailure ==
    /\ [](pc = "part" =>
             /\ i < Len(audio_files)
             /\ processed_files = SubSeq(audio_files, 1, i)
             /\ SectionsWritten(WrittenSoFar, audiobook_output, audio_files, i))
    /\ [][ (pc = "part" /\ Len(log') > Len(log)
              /\ log'[Len(log) + 1].op = "transcribe"
              /\ ~log'[Len(log) + 1].ok) =>
             /\ pc' = "loop"
             /\ DOMAIN fs' = DOMAIN fs
             /\ \A p \in DOMAIN fs : p # audiobook_output => fs'[p] = fs[p]
             /\ Len(log') = Len(log) + 2
             /\ log'[Len(log) + 1].op = "transcribe"
             /\ ~log'[Len(log) + 1].ok
             /\ log'[Len(log) + 1].path = audio_files[i + 1]
             /\ log'[Len(log) + 1].n = i + 1
             /\ log'[Len(log')].op = "report"
             /\ log'[Len(log')].arg = audiobook_output
             /\ log'[Len(log')].n = i
             /\ SectionsWritten(fs', audiobook_output, audio_files, i) ]_vars
    /\ [](\A k \in FailedParts :
             \A j \in LogIdx :
                 j > k /\ log[j].run = log[k].run /\ log[j].op = "transcribe"
                    => log[j].arg # log[k].arg)

\* C6 witness: the second of the three parts of a directory has just failed;
\* one part is reported, the aggregate holds the first part's section, the
\* third part was not passed to transcribe and the directory is still in
\* the drop directory.
C6_Witness ==
    /\ pc = "loop"
    /\ Len(log) >= 2
    /\ log[Len(log)].op = "report" /\ log[Len(log)].n = 1
    /\ log[Len(log) - 1].op = "transcribe" /\ log[Len(log) - 1].n = 2
    /\ ~log[Len(log) - 1].ok
    /\ \E o \in LogIdx : /\ log[o].op = "open" /\ log[o].run = run
                          /\ log[o].arg = log[Len(log)].arg
                          /\ log[o].n = 3
    /\ Exists(fs, log[Len(log)].arg)
    /\ Len(fs[log[Len(log)].arg].data) = 2
    /\ IsDir(fs, log[Len(log)].path)
    /\ Cardinality(ListDir(fs, log[Len(log)].path)) = 3

IsHeader(c) ==
    /\ Len(c) >= Len(HeaderPrefix) + Len(HeaderSuffix)
    /\ SubSeq(c, 1, Len(HeaderPrefix)) = HeaderPrefix
    /\ EndsWith(c, HeaderSuffix)

HeaderName(c) == SubSeq(c, Len(HeaderPrefix) + 1, Len(c) - Len(HeaderSuffix))

\* the part names of the section markers of a file, in the order of the file
Markers(data) ==
    LET h == SelectSeq(data, IsHeader) IN [k \in 1..Len(h) |-> HeaderName(h[k])]

Increasing(names) ==
    \A k \in 1..(Len(names) - 1) : StrLess(names[k], names[k + 1])

\* C7: the part list of a directory is the audio names of its listing in
\* increasing order, each once, whatever the order of the listing; it does not
\* change while the parts are transcribed; the section markers written to the
\* aggregate are those of the parts done, in that order; and the section
\* markers of every file in the output directory are in increasing order of
\* the part names.
C7_OrderPreserved ==
    /\ [](pc \in {"part", "dirmove"} =>
             /\ Increasing([k \in 1..Len(audio_files) |-> Basename(audio_files[k])])
             /\ {Basename(audio_files[k]) : k \in 1..Len(audio_files)}
                  = {dir_listing[k] : k \in {j \in 1..Len(dir_listing) :
                                               is_audio_file(dir_listing[j])}}
             /\ Markers(WrittenSoFar[audiobook_output].data)
                  = [k \in 1..i |-> Basename(audio_files[k])])
    /\ [](\A p \in DOMAIN OutputFiles(fs) : Increasing(Markers(fs[p].data)))
    /\ [][ pc = "part" /\ pc' \in {"part", "dirmove"} =>
             audio_files' = audio_files ]_vars

\* C7 witness: both parts are transcribed, the listing gave b.mp3 before
\* a.mp3, and the aggregate has a.mp3's marker before b.mp3's.
C7_Witness ==
    /\ pc = "dirmove"
    /\ dir_listing = <<"b.mp3", "a.mp3">>
    /\ Markers(fs[audiobook_output].data) = <<"a.mp3", "b.mp3">>


FailedFiles ==
    {k \in LogIdx : log[k].op = "transcribe" /\ ~log[k].ok /\ log[k].arg = <<>>}

\* C8 as stated: when transcribe fails for a single audio file the step
\* writes no output file and moves nothing (the source stays as it was, no
\* output file exists for it), and the next run does not take the file for
\* already processed: it transcribes it again.
C8_FailedFileRetried ==
    /\ [][ pc = "transcribe" /\ Logged("transcribe") /\ ~log'[Len(log')].ok =>
             /\ fs' = fs
             /\ pc' = "loop"
             /\ ~Exists(fs', get_output_filename(item_path, output_dir)) ]_vars
    /\ [](\A k \in FailedFiles :
             \A j \in LogIdx :
                 log[j].run = log[k].run + 1 /\ log[j].path = log[k].path
                    => log[j].op # "skip")

\* a path that an earlier processing of a directory wrote its aggregate to
UsedAggregate(p) ==
    /\ Exists(fs, p)
    /\ \/ \E k \in LogIdx : log[k].op = "open" /\ log[k].ok /\ log[k].arg = p
       \/ Markers(fs[p].data) # <<>>

\* C9 as stated: each time a directory with at least one part is processed,
\* transcription starts at its first part and the aggregate is opened at a
\* path that no earlier processing of a directory has used.
C9_FreshAggregate ==
    [][ pc = "listdir" /\ pc' = "part" =>
          /\ i' = 0
          /\ processed_files' = <<>>
          /\ ~UsedAggregate(audiobook_output') ]_vars

\* the moves of a single file that failed although the source was there
FailedFileMoves ==
    {k \in LogIdx : log[k].op = "move" /\ ~log[k].ok /\ log[k].n = 1}

RemovedSince(k) ==
    \E j \in LogIdx : j > k /\ log[j].op = "remove" /\ log[j].path = log[k].path

WrittenIn(r, path) == \E k \in EventsOf(r, "write", path) : log[k].ok

\* C10: a failed move of a single file that was there leaves the output
\* directory and the source as they were: the source is still
\* in the drop directory and the output file is there, holding the whole
\* transcript when this run wrote it (of the file the run took, if the
\* operator replaced it meanwhile).  In every later run, unless the operator
\* took the file, it is found already processed (transcribe is not invoked for
\* it, nothing is written for it) and the move is attempted again; a move that
\* succeeds leaves the file in the archive, out of the drop directory, with
\* its output file.
C10_MoveRetried ==
    /\ [][ pc = "shutil_move" /\ Logged("move") /\ ~log'[Len(log')].ok
              /\ log'[Len(log')].n = 1 =>
             /\ OutputFiles(fs') = OutputFiles(fs)
             /\ Exists(fs', item_path)
             /\ fs'[item_path] = fs[item_path]
             /\ Exists(fs', get_output_filename(item_path, output_dir))
             /\ WrittenIn(run, item_path) /\ ~ReplacedInJob =>
                   fs'[get_output_filename(item_path, output_dir)].data
                      = <<TranscriptText(fs'[item_path].data)>> ]_vars
    /\ [](\A k \in FailedFileMoves :
             ~RemovedSince(k) =>
                \A j \in LogIdx :
                    log[j].run > log[k].run /\ log[j].path = log[k].path =>
                       /\ log[j].op \notin {"transcribe", "write", "missing"}
                       /\ log[j].op = "skip" =>
                             \/ pc \in {"move", "shutil_move"}
                                   /\ item_path = log[j].path
                                   /\ run = log[j].run
                             \/ \E m \in EventsOf(log[j].run, "move", log[j].path) :
                                   m > j)
    /\ [][ Logged("move") /\ log'[Len(log')].ok /\ log'[Len(log')].n = 1 =>
             /\ ~Exists(fs', item_path)
             /\ InDir(log'[Len(log')].arg, processed_dir)
             /\ Exists(fs', log'[Len(log')].arg)
             /\ fs'[log'[Len(log')].arg] = fs[item_path]
             /\ Exists(fs', get_output_filename(item_path, output_dir)) ]_vars

\* C10 witness: the move of a file failed in the run that wrote its
\* transcript and left a copy cut short in the archive; the next run has
\* moved the file to the archive under a stamped name.
C10_Witness ==
    \E k \in FailedFileMoves :
        /\ WrittenIn(log[k].run, log[k].path)
        /\ \E m \in EventsOf(log[k].run + 1, "move", log[k].path) :
              /\ log[m].ok
              /\ Exists(fs, log[m].arg)
              /\ log[m].arg # log[k].arg
              /\ Exists(fs, log[k].arg)
              /\ fs[log[k].arg].data \in Partial(fs[log[m].arg].data)
        /\ EventsOf(log[k].run + 1, "skip", log[k].path) # {}
        /\ ~Exists(fs, log[k].path)


\* the engine could not be loaded in the current run
LoadFailed ==
    \E k \in LogIdx : log[k].run = run /\ log[k].op \in {"import_error", "load_error"}

\* C11 as stated: a run ends other than by normal completion (non-zero exit,
\* or an exception that leaves main before its final completion message) only
\* when the engine could not be loaded; no failure of a single item does it.
C11_ExitStatus == RunEnded /\ pc # "done" => LoadFailed


\* the extensions the spec's classification rule recognises
RecognisedExtensions == {".mp3"}

\* the classification rule of the spec for the entry at a path
Classify(f, path) ==
    IF IsDir(f, path) THEN "Collection"
    ELSE IF \E ext \in RecognisedExtensions : EndsWith(Lower(Basename(path)), ext)
    THEN "SingleAudio"
    ELSE "Unsupported"

\* the loop takes the item at its head
TakesItem == AtItem /\ (pc' # pc \/ idx' # idx)

DispatchOps == {"dispatch_file", "dispatch_dir", "dispatch_unsupported"}

\* the events of the run of event k that are about its path
SamePathInRun(k) ==
    {j \in LogIdx : log[j].run = log[k].run /\ log[j].path = log[k].path}

\* C12: when the entry at the head of the loop is neither a directory nor a
\* file with a recognised audio extension, the step changes no file, reports
\* the entry as unsupported and nothing else, and leaves the loop at the next
\* entry; in that run no transcribe call, no write and no move is made for the
\* entry; and whatever entry is at the head of the loop is the one dispatched
\* next, so the entries after an unsupported one are still taken.
C12_UnsupportedSkip ==
    /\ [][ TakesItem /\ Classify(fs, Join(dropbox_dir, items[idx])) = "Unsupported" =>
             /\ fs' = fs
             /\ pc' = "loop"
             /\ idx' = idx + 1
             /\ Len(log') = Len(log) + 1
             /\ log'[Len(log')].op = "dispatch_unsupported"
             /\ log'[Len(log')].path = Join(dropbox_dir, items[idx]) ]_vars
    /\ [](\A k \in LogIdx : log[k].op = "dispatch_unsupported" =>
             \A j \in SamePathInRun(k) :
                 log[j].op \in {"dispatch_unsupported", "drop", "remove"})
    /\ [][ TakesItem =>
             /\ Len(log') > Len(log)
             /\ log'[Len(log) + 1].op \in DispatchOps
             /\ log'[Len(log) + 1].path = Join(dropbox_dir, items[idx]) ]_vars

\* C12 witness: n.jpg was reported as unsupported and is still in the drop
\* directory, and the audio file listed after it was transcribed in that run.
C12_Witness ==
    \E k \in LogIdx :
        /\ log[k].op = "dispatch_unsupported"
        /\ Exists(fs, log[k].path)
        /\ \E j \in LogIdx :
              j > k /\ log[j].run = log[k].run /\ log[j].op = "transcribe" /\ log[j].ok


\* the directory at a path holds no entry with a recognised audio extension
NoParts(f, path) ==
    /\ IsDir(f, path)
    /\ \A name \in ListDir(f, path) :
          ~(\E ext \in RecognisedExtensions : EndsWith(Lower(name), ext))

\* process_directory is at work on a directory that holds no audio part
EmptyAt == pc \in {"isdir", "listdir"} /\ NoParts(fs, item_path)

\* C13: while process_directory works on a directory that holds no audio
\* part, none of its steps changes a file (no aggregate is created, the
\* directory stays where it is), opens an aggregate, calls transcribe or
\* moves anything; when the listing has been read the directory is reported
\* as empty and the loop goes on to the next entry; in that run no transcribe
\* call, no open of an aggregate and no move is made for the directory.
C13_EmptyCollection ==
    /\ [][ EmptyAt /\ pc' # pc =>
             /\ fs' = fs
             /\ pc' \in {"listdir", "loop", "crashed"}
             /\ ~Appended("open") /\ ~Appended("transcribe") /\ ~Appended("move") ]_vars
    /\ [][ EmptyAt /\ pc' = "loop" =>
             /\ idx' = idx + 1
             /\ Len(log') = Len(log) + 1
             /\ log'[Len(log')].op = "empty"
             /\ log'[Len(log')].path = item_path ]_vars
    /\ [](\A k \in LogIdx : log[k].op = "empty" =>
             /\ \A j \in SamePathInRun(k) :
                   log[j].op \in {"dispatch_dir", "empty", "drop", "remove"}
             /\ \A j \in LogIdx :
                   log[j].run = log[k].run /\ log[j].op = "transcribe"
                      => log[j].arg # log[k].path)

\* C13 witness: the run has ended, the directory em was reported as empty, it
\* is still in the drop directory with its file, no file of the output
\* directory is named after it and the archive does not hold it.
C13_Witness ==
    /\ RunEnded
    /\ \E k \in LogIdx :
          /\ log[k].op = "empty"
          /\ IsDir(fs, log[k].path)
          /\ ListDir(fs, log[k].path) # {}
          /\ \A p \in DOMAIN OutputFiles(fs) :
                ~(Len(Basename(p)) > Len(Basename(log[k].path))
                    /\ SubSeq(Basename(p), 1, Len(Basename(log[k].path)))
                          = Basename(log[k].path))
          /\ ~Exists(fs, Join(processed_dir, Basename(log[k].path)))


\* the runs in which the engine was loaded
LoadedRuns == {log[k].run : k \in {j \in LogIdx : log[j].op = "load"}}

EnumerationsOf(r) == {k \in LogIdx : log[k].run = r /\ log[k].op = "enumerate"}

\* the entries the operator put into the drop directory in the current run
\* after the run's enumeration
AddedAfterEnumeration ==
    {k \in LogIdx : /\ log[k].op = "drop"
                    /\ log[k].run = run
                    /\ \E e \in EnumerationsOf(run) : e < k}

\* nothing is done in the current run, after event k, with the entry of
\* event k or with a part of it
NotPickedUp(k) ==
    \A j \in LogIdx :
        j > k /\ log[j].run = run /\ log[j].op \notin {"drop", "remove"}
           => ~Within(log[j].path, log[k].path)

IsDispatchNow(e) == e.run = run /\ e.op \in DispatchOps

\* the calls of os.listdir on the drop directory in run r that raised
FailedEnumerationsOf(r) == {k \in EnumerationsOf(r) : ~log[k].ok}

\* os.listdir is called once on the drop directory in a run that loaded the
\* engine and in no other; a call that raises ends the run with nothing
\* dispatched; a call that returns names each entry of the drop directory
\* once, the listing is not changed during the run, and the dispatches of
\* the run follow it entry by entry
ListingFollowed ==
    /\ [](\A r \in 1..run :
             Cardinality(EnumerationsOf(r))
                = IF r \in LoadedRuns /\ ~(r = run /\ pc = "loaded") THEN 1 ELSE 0)
    /\ [](\A r \in 1..run :
             \A e \in FailedEnumerationsOf(r) :
                /\ r = run => pc = "crashed" /\ items = <<>>
                /\ \A j \in LogIdx :
                      j > e /\ log[j].run = r => log[j].op \in {"drop", "remove"})
    /\ [][ Appended("enumerate") /\ log'[Len(log) + 1].ok =>
             /\ Len(items') = Cardinality(ListDir(fs, dropbox_dir))
             /\ {items'[k] : k \in 1..Len(items')} = ListDir(fs, dropbox_dir) ]_vars
    /\ [][ ~(Appended("enumerate") /\ log'[Len(log) + 1].ok) /\ run' = run =>
             items' = items ]_vars
    /\ [](Enumerated =>
             LET d == SelectSeq(log, IsDispatchNow)
             IN  /\ Len(d) <= Len(items)
                 /\ \A m \in 1..Len(d) : d[m].path = Join(dropbox_dir, items[m]))

\* C14 as stated: a run that loads the engine calls os.listdir on the drop
\* directory exactly once (a call that raises ends the run with nothing
\* dispatched), every enumerated entry is dispatched at most once and in the
\* order of the listing, and an entry put into the drop directory after the
\* enumeration is neither transcribed nor archived in that run.
C14_Snapshot ==
    /\ ListingFollowed
    /\ [](\A k \in AddedAfterEnumeration : NotPickedUp(k))

\* C14 amended: a run that loads the engine calls os.listdir on the drop
\* directory exactly once, and a run that does not load it never; when the
\* call raises the run ends there with no listing and nothing dispatched;
\* when it returns, every enumerated entry is dispatched at most once and in the
\* order of the listing, and an entry put into the drop directory after the
\* enumeration under a name that the listing does not hold is neither
\* transcribed nor archived in that run.
C14_SnapshotOfNames ==
    /\ ListingFollowed
    /\ [](\A k \in AddedAfterEnumeration :
             (\A m \in 1..Len(items) : items[m] # Basename(log[k].path))
                => NotPickedUp(k))

\* C14 witness: the run has ended after it dispatched the two entries of its
\* listing; the directory bk was dropped during the run, is not in the
\* listing, and is still in the drop directory.
C14_Witness ==
    /\ pc = "done"
    /\ Len(items) = 2
    /\ Len(SelectSeq(log, IsDispatchNow)) = 2
    /\ \E k \in AddedAfterEnumeration :
          /\ IsDir(fs, log[k].path)
          /\ \A m \in 1..Len(items) : items[m] # Basename(log[k].path)


\* process_audio_file is entered for an entry of the listing that is not in
\* the drop directory
MissingAt ==
    /\ pc = "audio"
    /\ item_path = Join(dropbox_dir, items[idx])
    /\ item_path \notin DOMAIN fs

\* C15: when the single audio file the loop has taken is no longer in
\* the drop directory, the step changes no file (no output is created or
\* changed, the archive is as before), reports the file as missing and leaves
\* the loop at the next entry; in that run transcribe is not invoked for it,
\* nothing is written for it and no move of it is attempted.
C15_SourceMissing ==
    /\ [][ MissingAt /\ pc' # pc =>
             /\ fs' = fs
             /\ pc' = "loop"
             /\ idx' = idx + 1
             /\ Len(log') = Len(log) + 1
             /\ log'[Len(log')].op = "missing"
             /\ ~log'[Len(log')].ok
             /\ log'[Len(log')].path = item_path ]_vars
    /\ [](\A k \in LogIdx : log[k].op = "missing" =>
             \A j \in SamePathInRun(k) :
                 log[j].op \in {"dispatch_file", "missing", "drop", "remove"})

\* C15 witness: a.mp3 was enumerated, taken away and then reported missing;
\* the run has ended normally with the output and archive directories as
\* they were, empty.
C15_Witness ==
    /\ pc = "done"
    /\ \E k \in LogIdx :
          /\ log[k].op = "missing" /\ log[k].run = run
          /\ \E j \in LogIdx : j < k /\ log[j].op = "remove"
                                  /\ log[j].path = log[k].path
          /\ ~Exists(fs, get_output_filename(log[k].path, output_dir))
    /\ DOMAIN ArchiveFiles(fs) = {}


\* the dispatch the spec's rule asks for
DispatchFor(kind) ==
    CASE kind = "Collection" -> "dispatch_dir"
      [] kind = "SingleAudio" -> "dispatch_file"
      [] kind = "Unsupported" -> "dispatch_unsupported"

\* C16: whenever the loop takes an entry, exactly one dispatch is made for
\* it, and it is the one of the spec's rule: a directory goes to the
\* collection processor whatever its name, a non-directory whose name ends
\* with a recognised extension in any case goes to the single-file processor,
\* and every other entry is reported as unsupported.
C16_Classification ==
    [][ TakesItem =>
          /\ Len(log') > Len(log)
          /\ log'[Len(log) + 1].op
                = DispatchFor(Classify(fs, Join(dropbox_dir, items[idx])))
          /\ log'[Len(log) + 1].path = Join(dropbox_dir, items[idx])
          /\ \A j \in (Len(log) + 2)..Len(log') : log'[j].op \notin DispatchOps ]_vars

\* C16 witness: the directory d.mp3, whose name ends with an audio extension,
\* went to the collection processor, which transcribed its part.
C16_Witness ==
    \E k \in LogIdx :
        /\ log[k].op = "dispatch_dir"
        /\ is_audio_file(Basename(log[k].path))
        /\ PartsTranscribed(k) # {}


\* the events of run r that used an engine: the transcribe calls
TranscribesOf(r) == {k \in LogIdx : log[k].run = r /\ log[k].op = "transcribe"}

LoadsOf(r) ==
    {k \in LogIdx : log[k].run = r
                       /\ log[k].op \in {"load", "import_error", "load_error"}}

\* C17: every run makes one attempt to load the engine, as its first step;
\* every transcribe call of the run, for a single file or for a part, comes
\* after the load, is made on the instance that load returned, and no two
\* runs share an instance.
C17_LoadedOnce ==
    /\ \A r \in 1..run : Cardinality(LoadsOf(r)) = 1
    /\ \A k \in LogIdx :
          log[k].op \in {"load", "import_error", "load_error"} =>
             k = 1 \/ log[k - 1].run < log[k].run
    /\ \A t \in LogIdx :
          log[t].op = "transcribe" =>
             \E l \in 1..(t - 1) :
                 /\ log[l].op = "load"
                 /\ log[l].run = log[t].run
                 /\ log[t].model = log[l].model
                 /\ log[t].model # 0
    /\ \A k \in LogIdx :
          log[k].op = "load" =>
             \A l \in LogIdx :
                 log[l].op = "load" /\ k # l => log[k].model # log[l].model

\* C17 witness: one run loaded the engine once and transcribed a single file
\* and both parts of a directory with it.
C17_Witness ==
    \E r \in 1..run :
        /\ \E t \in TranscribesOf(r) : log[t].ok /\ log[t].arg = <<>>
        /\ \E t \in TranscribesOf(r) : log[t].ok /\ log[t].n = 2


Running == pc \notin Ended \cup {"idle"}

InTranscribe == pc \in {"transcribe", "part"}

\* C18: if every call of transcribe returns, every run that has started
\* ends; in any case a behaviour ends up either with its runs ended or inside
\* a call of transcribe that does not return; and within one run transcribe
\* is invoked at most once for a path, be it a single file or a part.
C18_Termination ==
    /\ WF_vars(TranscribeReturns) => [](Running => <>RunEnded)
    /\ <>[](~Running) \/ <>[]InTranscribe
    /\ [](\A j, k \in LogIdx :
             /\ j # k
             /\ log[j].op = "transcribe" /\ log[k].op = "transcribe"
             /\ log[j].run = log[k].run
             => log[j].path # log[k].path)

\* C18 witness: a run has ended normally after transcribing a single file
\* and both parts of a directory, each once.
C18_Witness ==
    /\ pc = "done"
    /\ Cardinality({k \in TranscribesOf(run) : log[k].ok}) = 3


\* transcribe returned a text for the file now at a path: a call on that path
\* succeeded and the operator has not put another file there since
TranscribedAsIs(path) ==
    \E t \in LogIdx :
        /\ log[t].op = "transcribe" /\ log[t].ok /\ log[t].path = path
        /\ \A j \in LogIdx : j > t /\ log[j].op = "drop" => log[j].path # path

\* C19 as stated: whenever a single audio file is moved to the archive (one
\* the operator did not replace while it was processed), transcribe has
\* succeeded on that very file in this or an earlier run, and the file at its
\* output path holds the transcript of that file.
C19_NoUntranscribedArchive ==
    [][ Logged("move") /\ log'[Len(log')].ok /\ log'[Len(log')].n = 1
           /\ ~ReplacedInJob =>
          /\ TranscribedAsIs(item_path)
          /\ Exists(fs', get_output_filename(item_path, output_dir))
          /\ fs'[get_output_filename(item_path, output_dir)].data
                = <<TranscriptText(fs[item_path].data)>> ]_vars


\* the current run loaded the engine, none of its steps failed and the
\* operator left the drop directory alone during it
CleanRun ==
    /\ pc = "done"
    /\ run \in LoadedRuns
    /\ \A k \in LogIdx :
          log[k].run = run => log[k].ok /\ log[k].op \notin {"drop", "remove"}

\* the dispatch of the current run for the listing's entry number m
DispatchOf(m) == SelectSeq(log, IsDispatchNow)[m]

\* the entry has to be drained: a single audio file, or a directory with at
\* least one part
ToDrain(d) ==
    \/ d.op = "dispatch_file"
    \/ /\ d.op = "dispatch_dir"
       /\ \E k \in LogIdx :
             /\ log[k].run = run /\ log[k].op = "open" /\ log[k].path = d.path
             /\ log[k].n > 0

\* the successful moves of the current run
MovesNow == {k \in LogIdx : log[k].run = run /\ log[k].op = "move" /\ log[k].ok}

\* the entry of dispatch d has an output artifact
HasOutput(d) ==
    IF d.op = "dispatch_file"
    THEN Exists(fs, get_output_filename(d.path, output_dir))
    ELSE \E k \in LogIdx :
            /\ log[k].run = run /\ log[k].op = "open" /\ log[k].path = d.path
            /\ Exists(fs, log[k].arg)

\* C20 as stated: after a run that loaded the engine and in which nothing
\* failed, every enumerated single audio file and every enumerated directory
\* with at least one part is out of the drop directory, in the archive at a
\* place of its own, and has an output artifact; every other enumerated entry
\* (unsupported, or a directory without parts) is still in the drop directory.
C20_DrainComplete ==
    CleanRun =>
        /\ Len(SelectSeq(log, IsDispatchNow)) = Len(items)
        /\ \A m \in 1..Len(items) :
              IF ToDrain(DispatchOf(m))
              THEN /\ ~Exists(fs, DispatchOf(m).path)
                   /\ \E k \in MovesNow :
                         /\ log[k].path = DispatchOf(m).path
                         /\ InDir(log[k].arg, processed_dir)
                         /\ Exists(fs, log[k].arg)
                   /\ HasOutput(DispatchOf(m))
              ELSE Exists(fs, DispatchOf(m).path)
        /\ \A j, k \in MovesNow : j # k => log[j].arg # log[k].arg

====
